---- MODULE Spec2Model ----
(***************************************************************************)
(* A model of the blog application in src/blogicum/blog: the request       *)
(* handlers of views.py, routed as in urls.py, acting on the stored posts, *)
(* comments and user accounts, with a clock.  Each action is one request:  *)
(* it reads the request's inputs, runs the handler (the dispatch of its    *)
(* mixins included), changes the store as the handler does and leaves the  *)
(* handler's answer in `response`.                                         *)
(***************************************************************************)
EXTENDS Integers, Sequences, FiniteSets, TLC

\* ------------------------------------------------------------- bounds
\* Posts ever created, comments ever created, and the last clock value.
MaxPosts == 2
MaxComments == 2
MaxTime == 1

\* views.py:15
VALUE_POSTS_PAGINATE == 10

\* ------------------------------------------------------------- values
Users == {"alice", "bob"}
AnonymousUser == "anonymous"
Actors == Users \cup {AnonymousUser}
\* usernames a profile URL may carry: the accounts and one that matches none
Usernames == Users \cup {"nobody"}

NoCategory == "null"
Categories == {"news", "hidden"}
\* Category.is_published; categories are managed outside these views
CategoryIsPublished == [c \in Categories |-> c = "news"]
\* slugs a category URL may carry
Slugs == Categories \cup {"missing"}

\* ids a URL may carry: 0 is an id no row ever has
PostIdArgs == 0..MaxPosts
CommentIdArgs == 0..MaxComments
Times == 0..MaxTime
Texts == {"a", "b"}
Submits == {"GET", "POST_invalid", "POST_valid"}

VARIABLES posts, comments, users, now, post_seq, comment_seq, response

vars == <<posts, comments, users, now, post_seq, comment_seq, response>>

\* ------------------------------------------------------------- store
\* Post rows: id -> [author, is_published, category, pub_date]
PostRows == [author : Users, is_published : BOOLEAN,
             category : Categories \cup {NoCategory}, pub_date : Times]
\* Comment rows: id -> [author, post, created_at, text]
CommentRows == [author : Users, post : 1..MaxPosts, created_at : Times,
                text : Texts]

\* Post.objects.filter(id=...).exists()
PostExists(post_id) == post_id \in DOMAIN posts

\* the reverse relation post.comments
CommentsOf(post_id) == {c \in DOMAIN comments : comments[c].post = post_id}

\* request.user.is_authenticated
is_authenticated(user) == user \in Users

\* ------------------------------------------------------------- responses
NoLocation == [name |-> "", post_id |-> 0, username |-> ""]
LoginUrl == [name |-> "login", post_id |-> 0, username |-> ""]
IndexUrl == [name |-> "blog:index", post_id |-> 0, username |-> ""]
PostDetailUrl(post_id) ==
    [name |-> "blog:post_detail", post_id |-> post_id, username |-> ""]
ProfileUrl(username) ==
    [name |-> "blog:profile", post_id |-> 0, username |-> username]

NoContext == [object |-> 0, form |-> FALSE, has_comments |-> FALSE,
              comments |-> <<>>]

Request(op, user, post_id, comment_id, name, submit) ==
    [op |-> op, user |-> user, post_id |-> post_id,
     comment_id |-> comment_id, name |-> name, submit |-> submit]

Answer(req, status, location, object_list, context) ==
    [op |-> req.op, user |-> req.user, post_id |-> req.post_id,
     comment_id |-> req.comment_id, name |-> req.name, submit |-> req.submit,
     status |-> status, location |-> location,
     object_list |-> object_list, context |-> context]

\* a rendered template
Render(req) == Answer(req, "200", NoLocation, <<>>, NoContext)
\* Http404
NotFound(req) == Answer(req, "404", NoLocation, <<>>, NoContext)
\* HttpResponseRedirect
Redirect(req, location) == Answer(req, "302", location, <<>>, NoContext)

NoResponse == Answer(Request("", AnonymousUser, 0, 0, "", "GET"),
                     "", NoLocation, <<>>, NoContext)

\* no request is being handled: the last answer has been sent
Idle == response = NoResponse

\* the answer goes back to the client and the server awaits the next request
Respond ==
    /\ ~Idle
    /\ response' = NoResponse
    /\ UNCHANGED <<posts, comments, users, now, post_seq, comment_seq>>

\* ------------------------------------------------------------- queries
\* every order in which the rows of a set can come back
Orderings(ids) ==
    {f \in [1..Cardinality(ids) -> ids] :
        \A i, j \in 1..Cardinality(ids) : i # j => f[i] # f[j]}

\* the lookup category__is_published=True: a join, which a post whose
\* category is null has no row in
category__is_published(post_id) ==
    /\ posts[post_id].category # NoCategory
    /\ CategoryIsPublished[posts[post_id].category]

\* published_filter without the pub_date__lte lookup
published_filter_no_pub_date(post_id) ==
    /\ posts[post_id].is_published
    /\ category__is_published(post_id)

\* filter(is_published=True, pub_date__lte=timezone.now(),
\*        category__is_published=True)
published_filter(post_id) ==
    /\ posts[post_id].is_published
    /\ posts[post_id].pub_date <= now
    /\ category__is_published(post_id)

\* A queryset: the ids it selects, whether annotate(comment_count=...) was
\* applied, and whether order_by('-pub_date') was.
queryset_pattern(add_filter, category_object, add_comments, add_category_filter) ==
    LET all == DOMAIN posts
        filtered == IF add_filter
                    THEN {i \in all : published_filter(i)}
                    ELSE all
        in_category == IF add_filter /\ add_category_filter
                       THEN {i \in filtered :
                                posts[i].category = category_object}
                       ELSE filtered
    IN  [ids |-> in_category, annotated |-> add_comments,
         ordered |-> add_comments]

\* filter_author with the author lookup left out
filter_author_left_out(qs, user) == qs

\* queryset.filter(author=user)
filter_author(qs, user) ==
    [qs EXCEPT !.ids = {i \in qs.ids : posts[i].author = user}]

\* Count('comments'); an item without the annotation carries <<>>
comment_count(qs, post_id) ==
    IF qs.annotated THEN <<Cardinality(CommentsOf(post_id))>> ELSE <<>>

\* The sequences a queryset may evaluate to: with order_by('-pub_date') the
\* rows come newest first (rows of equal pub_date in either order), without
\* it the order is not fixed by these views.
Evaluate(qs) ==
    {[k \in 1..Cardinality(qs.ids) |->
         [id |-> f[k], comment_count |-> comment_count(qs, f[k])]] :
     f \in {g \in Orderings(qs.ids) :
              qs.ordered =>
                 \A i, j \in 1..Cardinality(qs.ids) :
                    i < j => posts[g[i]].pub_date >= posts[g[j]].pub_date}}

\* paginate_by: the first page
paginate(rows) ==
    SubSeq(rows, 1, IF Len(rows) < VALUE_POSTS_PAGINATE
                    THEN Len(rows) ELSE VALUE_POSTS_PAGINATE)

\* a rendered list page
RenderList(req, rows) ==
    Answer(req, "200", NoLocation, paginate(rows), NoContext)

\* ------------------------------------------------------------- listings
\* PostListView: GET /
PostListView ==
  /\ Idle
  /\ \E user \in Actors :
      LET req == Request("index", user, 0, 0, "", "GET")
          qs == queryset_pattern(TRUE, NoCategory, TRUE, FALSE)
      IN  /\ \E rows \in Evaluate(qs) : response' = RenderList(req, rows)
          /\ UNCHANGED <<posts, comments, users, now, post_seq, comment_seq>>

\* CategoryPostsView: GET /category/<slug>/
CategoryPostsView ==
  /\ Idle
  /\ \E user \in Actors, slug \in Slugs :
      LET req == Request("category_posts", user, 0, 0, slug, "GET")
          found == slug \in Categories /\ CategoryIsPublished[slug]
          qs == queryset_pattern(TRUE, slug, TRUE, TRUE)
      IN  /\ IF ~found
             THEN response' = NotFound(req)
             ELSE \E rows \in Evaluate(qs) : response' = RenderList(req, rows)
          /\ UNCHANGED <<posts, comments, users, now, post_seq, comment_seq>>

\* ProfileView: GET /profile/<username>/
ProfileView ==
  /\ Idle
  /\ \E user \in Actors, username \in Usernames :
      LET req == Request("profile", user, 0, 0, username, "GET")
          qs == IF user = username
                THEN filter_author(
                        queryset_pattern(FALSE, NoCategory, FALSE, FALSE),
                        username)
                ELSE filter_author(
                        queryset_pattern(TRUE, NoCategory, TRUE, FALSE),
                        username)
      IN  /\ IF username \notin Users
             THEN response' = NotFound(req)
             ELSE \E rows \in Evaluate(qs) : response' = RenderList(req, rows)
          /\ UNCHANGED <<posts, comments, users, now, post_seq, comment_seq>>

\* ------------------------------------------------------------- detail
\* get_object returning the post to anyone before comparing pub_date
PostDetailView_get_object_no_pub_date(user, post_id) ==
    IF ~PostExists(post_id) THEN "404"
    ELSE IF posts[post_id].author = user THEN "post"
    ELSE IF ~(posts[post_id].is_published /\ category__is_published(post_id))
         THEN "404"
    ELSE "post"

\* PostDetailView.get_object: "404" when a lookup raises Http404, "post" when
\* it returns the row, "None" when it falls off its end.
PostDetailView_get_object(user, post_id) ==
    IF ~PostExists(post_id) THEN "404"
    ELSE IF posts[post_id].author = user THEN "post"
    ELSE IF ~(posts[post_id].is_published /\ category__is_published(post_id))
         THEN "404"
    ELSE IF posts[post_id].pub_date <= now THEN "post"
    ELSE "None"

\* post.comments.all().order_by('created_at'): oldest first, comments of
\* equal created_at in either order
OrderedComments(post_id) ==
    {f \in Orderings(CommentsOf(post_id)) :
        \A i, j \in 1..Cardinality(CommentsOf(post_id)) :
           i < j => comments[f[i]].created_at <= comments[f[j]].created_at}

\* PostDetailView: GET /posts/<post_id>/
PostDetailView ==
  /\ Idle
  /\ \E user \in Actors, post_id \in PostIdArgs :
      LET req == Request("post_detail", user, post_id, 0, "", "GET")
          object == PostDetailView_get_object(user, post_id)
      IN  /\ CASE object = "404" -> response' = NotFound(req)
                [] object = "None" ->
                     response' = Answer(req, "200", NoLocation, <<>>, NoContext)
                [] OTHER ->
                     \E listed \in OrderedComments(post_id) :
                        response' = Answer(req, "200", NoLocation, <<>>,
                                      [object |-> post_id, form |-> TRUE,
                                       has_comments |-> TRUE,
                                       comments |-> listed])
          /\ UNCHANGED <<posts, comments, users, now, post_seq, comment_seq>>

\* ------------------------------------------------------------- mixins
\* test_func passing every signed-in user
test_func_any_user(author, user) == is_authenticated(user)

\* OnlyAuthorMixin.test_func, given the author of self.get_object()
test_func(author, user) == author = user

\* OnlyAuthorMixin.handle_no_permission
handle_no_permission(req) ==
    IF ~is_authenticated(req.user)
    THEN Redirect(req, LoginUrl)
    ELSE Redirect(req, PostDetailUrl(req.post_id))

\* UserPassesTestMixin.dispatch of a view with OnlyAuthorMixin: test_func
\* first fetches the object (Http404 when the lookup finds none), then
\* compares its author; "pass" hands the request to the view.
OnlyAuthorDispatch(req, found, author) ==
    IF ~found THEN "404"
    ELSE IF test_func(author, req.user) THEN "pass"
    ELSE "no_permission"

\* LoginRequiredMixin.dispatch
LoginRequiredDispatch(req) ==
    IF is_authenticated(req.user) THEN "pass" ELSE "login"

\* ------------------------------------------------------------- posts
\* the fields a PostForm sets
PostForms == [is_published : BOOLEAN,
              category : Categories \cup {NoCategory}, pub_date : Times]

\* PostCreateView: /posts/create/
PostCreateView ==
  /\ Idle
  /\ \E user \in Actors, submit \in Submits :
      LET req == Request("create_post", user, 0, 0, "", submit)
      IN  IF LoginRequiredDispatch(req) = "login"
          THEN /\ response' = Redirect(req, LoginUrl)
               /\ UNCHANGED <<posts, comments, users, now, post_seq,
                              comment_seq>>
          ELSE IF submit # "POST_valid"
          THEN /\ response' = Render(req)
               /\ UNCHANGED <<posts, comments, users, now, post_seq,
                              comment_seq>>
          ELSE /\ post_seq < MaxPosts
               /\ post_seq' = post_seq + 1
               /\ \E form \in PostForms :
                    posts' = (post_seq + 1 :>
                                [author |-> user,
                                 is_published |-> form.is_published,
                                 category |-> form.category,
                                 pub_date |-> form.pub_date]) @@ posts
               /\ response' = Redirect(req, ProfileUrl(user))
               /\ UNCHANGED <<comments, users, now, comment_seq>>

\* PostUpdateView: /posts/<post_id>/edit/
PostUpdateView ==
  /\ Idle
  /\ \E user \in Actors, post_id \in PostIdArgs, submit \in Submits :
      LET req == Request("edit_post", user, post_id, 0, "", submit)
          found == PostExists(post_id)
          verdict == OnlyAuthorDispatch(req, found,
                        IF found THEN posts[post_id].author ELSE "")
      IN  CASE verdict = "404" ->
                 /\ response' = NotFound(req)
                 /\ UNCHANGED <<posts, comments, users, now, post_seq,
                                comment_seq>>
            [] verdict = "no_permission" ->
                 /\ response' = handle_no_permission(req)
                 /\ UNCHANGED <<posts, comments, users, now, post_seq,
                                comment_seq>>
            [] verdict = "pass" /\ submit # "POST_valid" ->
                 /\ response' = Render(req)
                 /\ UNCHANGED <<posts, comments, users, now, post_seq,
                                comment_seq>>
            [] OTHER ->
                 /\ \E form \in PostForms :
                      posts' = [posts EXCEPT ![post_id] =
                                  [@ EXCEPT
                                     !.is_published = form.is_published,
                                     !.category = form.category,
                                     !.pub_date = form.pub_date]]
                 /\ response' = Redirect(req, PostDetailUrl(post_id))
                 /\ UNCHANGED <<comments, users, now, post_seq, comment_seq>>

\* Comment.post's deletion rule: the comments of a deleted post go with it
CascadeDelete(post_id) ==
    [c \in DOMAIN comments \ CommentsOf(post_id) |-> comments[c]]

\* PostDeleteView: /posts/<post_id>/delete/
PostDeleteView ==
  /\ Idle
  /\ \E user \in Actors, post_id \in PostIdArgs,
       submit \in {"GET", "POST_valid"} :
      LET req == Request("delete_post", user, post_id, 0, "", submit)
          found == PostExists(post_id)
          verdict == OnlyAuthorDispatch(req, found,
                        IF found THEN posts[post_id].author ELSE "")
      IN  CASE verdict = "404" ->
                 /\ response' = NotFound(req)
                 /\ UNCHANGED <<posts, comments, users, now, post_seq,
                                comment_seq>>
            [] verdict = "no_permission" ->
                 /\ response' = handle_no_permission(req)
                 /\ UNCHANGED <<posts, comments, users, now, post_seq,
                                comment_seq>>
            [] verdict = "pass" /\ submit # "POST_valid" ->
                 /\ response' = Render(req)
                 /\ UNCHANGED <<posts, comments, users, now, post_seq,
                                comment_seq>>
            [] OTHER ->
                 /\ posts' = [i \in DOMAIN posts \ {post_id} |-> posts[i]]
                 /\ comments' = CascadeDelete(post_id)
                 /\ response' = Redirect(req, IndexUrl)
                 /\ UNCHANGED <<users, now, post_seq, comment_seq>>

\* ------------------------------------------------------------- comments
\* AddCommentView: /posts/<post_id>/comment/
AddCommentView ==
  /\ Idle
  /\ \E user \in Actors, post_id \in PostIdArgs, submit \in Submits :
      LET req == Request("add_comment", user, post_id, 0, "", submit)
      IN  IF LoginRequiredDispatch(req) = "login"
          THEN /\ response' = Redirect(req, LoginUrl)
               /\ UNCHANGED <<posts, comments, users, now, post_seq,
                              comment_seq>>
          ELSE IF submit # "POST_valid"
          THEN /\ response' = Render(req)
               /\ UNCHANGED <<posts, comments, users, now, post_seq,
                              comment_seq>>
          ELSE IF ~PostExists(post_id)
          THEN /\ response' = NotFound(req)
               /\ UNCHANGED <<posts, comments, users, now, post_seq,
                              comment_seq>>
          ELSE /\ comment_seq < MaxComments
               /\ comment_seq' = comment_seq + 1
               /\ \E text \in Texts :
                    comments' = (comment_seq + 1 :>
                                   [author |-> user, post |-> post_id,
                                    created_at |-> now, text |-> text])
                                @@ comments
               /\ response' = Redirect(req, PostDetailUrl(post_id))
               /\ UNCHANGED <<posts, users, now, post_seq>>

\* the comment lookup by id alone, without post_id
CommentFound_by_id(post_id, comment_id) == comment_id \in DOMAIN comments

\* EditCommentView.get_object / DeleteCommentView.get_object:
\* get_object_or_404(Comment, id=comment_id, post_id=post_id)
CommentFound(post_id, comment_id) ==
    /\ comment_id \in DOMAIN comments
    /\ comments[comment_id].post = post_id

\* EditCommentView: /posts/<post_id>/edit_comment/<comment_id>/
EditCommentView ==
  /\ Idle
  /\ \E user \in Actors, post_id \in PostIdArgs, comment_id \in CommentIdArgs,
       submit \in Submits :
      LET req == Request("edit_comment", user, post_id, comment_id, "",
                         submit)
          found == CommentFound(post_id, comment_id)
          verdict == OnlyAuthorDispatch(req, found,
                        IF found THEN comments[comment_id].author ELSE "")
      IN  CASE verdict = "404" ->
                 /\ response' = NotFound(req)
                 /\ UNCHANGED <<posts, comments, users, now, post_seq,
                                comment_seq>>
            [] verdict = "no_permission" ->
                 /\ response' = handle_no_permission(req)
                 /\ UNCHANGED <<posts, comments, users, now, post_seq,
                                comment_seq>>
            [] verdict = "pass" /\ submit # "POST_valid" ->
                 /\ response' = Render(req)
                 /\ UNCHANGED <<posts, comments, users, now, post_seq,
                                comment_seq>>
            [] OTHER ->
                 /\ \E text \in Texts :
                      comments' = [comments EXCEPT ![comment_id].text = text]
                 /\ response' = Redirect(req, PostDetailUrl(post_id))
                 /\ UNCHANGED <<posts, users, now, post_seq, comment_seq>>

\* DeleteCommentView: /posts/<post_id>/delete_comment/<comment_id>/
DeleteCommentView ==
  /\ Idle
  /\ \E user \in Actors, post_id \in PostIdArgs, comment_id \in CommentIdArgs,
       submit \in {"GET", "POST_valid"} :
      LET req == Request("delete_comment", user, post_id, comment_id, "",
                         submit)
          found == CommentFound(post_id, comment_id)
          verdict == OnlyAuthorDispatch(req, found,
                        IF found THEN comments[comment_id].author ELSE "")
      IN  CASE verdict = "404" ->
                 /\ response' = NotFound(req)
                 /\ UNCHANGED <<posts, comments, users, now, post_seq,
                                comment_seq>>
            [] verdict = "no_permission" ->
                 /\ response' = handle_no_permission(req)
                 /\ UNCHANGED <<posts, comments, users, now, post_seq,
                                comment_seq>>
            [] verdict = "pass" /\ submit # "POST_valid" ->
                 /\ response' = Render(req)
                 /\ UNCHANGED <<posts, comments, users, now, post_seq,
                                comment_seq>>
            [] OTHER ->
                 /\ comments' = [c \in DOMAIN comments \ {comment_id} |->
                                   comments[c]]
                 /\ response' = Redirect(req, PostDetailUrl(post_id))
                 /\ UNCHANGED <<posts, users, now, post_seq, comment_seq>>

\* ------------------------------------------------------------- profile
\* EditProfileView: /accounts/profile/ ; get_object is request.user
EditProfileView ==
  /\ Idle
  /\ \E user \in Actors, submit \in Submits :
      LET req == Request("edit_profile", user, 0, 0, "", submit)
      IN  IF LoginRequiredDispatch(req) = "login"
          THEN /\ response' = Redirect(req, LoginUrl)
               /\ UNCHANGED <<posts, comments, users, now, post_seq,
                              comment_seq>>
          ELSE IF submit # "POST_valid"
          THEN /\ response' = Render(req)
               /\ UNCHANGED <<posts, comments, users, now, post_seq,
                              comment_seq>>
          ELSE /\ \E value \in Texts : users' = [users EXCEPT ![user] = value]
               /\ response' = Redirect(req, ProfileUrl(user))
               /\ UNCHANGED <<posts, comments, now, post_seq, comment_seq>>

\* ------------------------------------------------------------- clock
\* timezone.now() advances between requests
Tick ==
    /\ Idle
    /\ now < MaxTime
    /\ now' = now + 1
    /\ UNCHANGED <<posts, comments, users, post_seq, comment_seq, response>>

Init ==
    /\ posts = <<>>
    /\ comments = <<>>
    /\ users = [u \in Users |-> "a"]
    /\ now = 0
    /\ post_seq = 0
    /\ comment_seq = 0
    /\ response = NoResponse

\* ------------------------------------------------------------- the program
\* every request the routes of urls.py accept, and the clock
Next ==
    \/ Tick
    \/ Respond
    \/ PostListView
    \/ CategoryPostsView
    \/ ProfileView
    \/ PostDetailView
    \/ PostCreateView
    \/ PostUpdateView
    \/ PostDeleteView
    \/ AddCommentView
    \/ EditCommentView
    \/ DeleteCommentView
    \/ EditProfileView

\* the whole application, from the empty store
Spec == Init /\ [][Next]_vars

\* The reachable states of Spec grow as the product of the post rows, the
\* comment rows and the answers, so the properties are checked under three
\* parts of it, each with the bounds above.

\* the post workflow, the listings and the profile, from the empty store
NextPosts ==
    \/ Tick
    \/ Respond
    \/ PostListView
    \/ CategoryPostsView
    \/ ProfileView
    \/ PostDetailView
    \/ PostCreateView
    \/ PostUpdateView
    \/ PostDeleteView
    \/ EditProfileView

SpecPosts == Init /\ [][NextPosts]_vars

\* the comment workflow, from a store of two posts: alice's, with any values
\* a PostForm can give it, and bob's, published in a published category
InitComments ==
    /\ \E form \in PostForms :
         posts = (1 :> [author |-> "alice",
                        is_published |-> form.is_published,
                        category |-> form.category,
                        pub_date |-> form.pub_date])
                 @@ (2 :> [author |-> "bob", is_published |-> TRUE,
                           category |-> "news", pub_date |-> 0])
    /\ comments = <<>>
    /\ users = [u \in Users |-> "a"]
    /\ now = 0
    /\ post_seq = 2
    /\ comment_seq = 0
    /\ response = NoResponse

NextComments ==
    \/ Tick
    \/ Respond
    \/ PostListView
    \/ ProfileView
    \/ PostDetailView
    \/ PostDeleteView
    \/ AddCommentView
    \/ EditCommentView
    \/ DeleteCommentView

SpecComments == InitComments /\ [][NextComments]_vars

\* the whole application again, from the store left after a first post and
\* its comment were deleted: ids 1 are spent, the rows are gone
InitOwnership ==
    /\ posts = <<>>
    /\ comments = <<>>
    /\ users = [u \in Users |-> "a"]
    /\ now = 0
    /\ post_seq = 1
    /\ comment_seq = 1
    /\ response = NoResponse

SpecOwnership == InitOwnership /\ [][Next]_vars

\* ------------------------------------------------------------- properties
TypeOK ==
    /\ DOMAIN posts \subseteq 1..post_seq
    /\ \A i \in DOMAIN posts : posts[i] \in PostRows
    /\ DOMAIN comments \subseteq 1..comment_seq
    /\ \A c \in DOMAIN comments :
          comments[c] \in CommentRows /\ comments[c].post \in DOMAIN posts
    /\ post_seq \in 0..MaxPosts
    /\ comment_seq \in 0..MaxComments
    /\ now \in Times

\* the ids of the posts on a list page
Listed == {response.object_list[k].id : k \in 1..Len(response.object_list)}

\* "publicly visible" with the category condition applying only to a post
\* that has a category
PubliclyVisible(i) ==
    /\ posts[i].is_published
    /\ (posts[i].category # NoCategory =>
           CategoryIsPublished[posts[i].category])
    /\ posts[i].pub_date <= now

\* published, in a category, that category published, and not in the future
VisibleInCategory(i) ==
    /\ posts[i].is_published
    /\ posts[i].category \in {c \in Categories : CategoryIsPublished[c]}
    /\ posts[i].pub_date <= now

OwnerOps == {"edit_post", "delete_post", "edit_comment", "delete_comment"}
MutatingOps == OwnerOps \cup {"create_post", "add_comment", "edit_profile"}

\* C1, as stated: whatever the clock shows, the index lists exactly the
\* posts that are published, not in the future, and whose category, if they
\* have one, is published; a post without a category is listed when the other
\* two conditions hold.
C1_IndexListsPubliclyVisible ==
    response.op = "index" =>
        Listed = {i \in DOMAIN posts : PubliclyVisible(i)}

\* C1, amended: whatever the clock shows, the index lists exactly the posts
\* that are published, have a category that is published, and have
\* pub_date <= now, each once; a post without a category is never listed.
C1_IndexListsVisibleInCategory ==
    response.op = "index" =>
        /\ Listed = {i \in DOMAIN posts : VisibleInCategory(i)}
        /\ Len(response.object_list) = Cardinality(Listed)

\* C1's case: the clock has advanced, the index lists a post whose pub_date
\* is the present moment, and leaves out a published, past post that has no
\* category.
C1_Witness ==
    /\ response.op = "index"
    /\ now > 0
    /\ \E i \in Listed : posts[i].pub_date = now
    /\ \E i \in DOMAIN posts \ Listed :
          /\ posts[i].is_published
          /\ posts[i].category = NoCategory
          /\ posts[i].pub_date <= now

\* C2: the detail page of an existing post is served with the post to its
\* author always, to anyone else only when the post is published, in a
\* published category and not in the future, and every other request,
\* one for an id that does not exist included, ends in NotFound.
C2_DetailServedOrNotFound ==
    response.op = "post_detail" =>
        IF /\ response.post_id \in DOMAIN posts
           /\ \/ posts[response.post_id].author = response.user
              \/ VisibleInCategory(response.post_id)
        THEN response.status = "200"
             /\ response.context.object = response.post_id
        ELSE response.status = "404"

\* C3: a signed-in user who is not the author of the existing post or
\* comment addressed by an edit or delete request gets Forbidden (403).
C3_NonAuthorForbidden ==
    (/\ response.op \in OwnerOps
     /\ response.user \in Users
     /\ IF response.op \in {"edit_post", "delete_post"}
        THEN /\ response.post_id \in DOMAIN posts
             /\ posts[response.post_id].author # response.user
        ELSE /\ response.comment_id \in DOMAIN comments
             /\ comments[response.comment_id].post = response.post_id
             /\ comments[response.comment_id].author # response.user)
    => response.status = "403"

\* C4: an anonymous request to any state-changing operation is answered by
\* the redirect to the login page, whatever post id and comment id it names.
C4_AnonymousRedirectedToLogin ==
    (response.op \in MutatingOps /\ response.user = AnonymousUser)
    => (response.status = "302" /\ response.location = LoginUrl)

\* a request to an owner-only operation that is not its object's author's:
\* the object is not found, or the requester is not the author
Rejected(r) ==
    /\ r.op \in OwnerOps
    /\ IF r.op \in {"edit_post", "delete_post"}
       THEN ~(r.post_id \in DOMAIN posts /\ posts[r.post_id].author = r.user)
       ELSE ~(/\ r.comment_id \in DOMAIN comments
              /\ comments[r.comment_id].post = r.post_id
              /\ comments[r.comment_id].author = r.user)

PostTouched(i) == i \notin DOMAIN posts' \/ posts'[i] # posts[i]
CommentTouched(c) == c \notin DOMAIN comments' \/ comments'[c] # comments[c]

\* C5, as stated: a post or comment changes or disappears only in a step
\* whose actor is its author, an account changes only in that user's own
\* profile edit, and a rejected edit or delete request changes nothing.
C5_OnlyAuthorChanges ==
    [][/\ \A i \in DOMAIN posts :
            PostTouched(i) => response'.user = posts[i].author
       /\ \A c \in DOMAIN comments :
            CommentTouched(c) => response'.user = comments[c].author
       /\ \A u \in Users :
            users'[u] # users[u] =>
               response'.op = "edit_profile" /\ response'.user = u
       /\ Rejected(response') =>
            UNCHANGED <<posts, comments, users>>]_vars

\* C5, amended: a post changes or disappears only in a step whose actor is
\* its author; a comment changes or disappears only in a step whose actor is
\* its author, or disappears in the delete-post step of its own post, made by
\* that post's author; an account changes only in that user's own profile
\* edit; a rejected edit or delete request changes nothing.
C5_OnlyAuthorOrCascade ==
    [][/\ \A i \in DOMAIN posts :
            PostTouched(i) =>
               /\ response'.user = posts[i].author
               /\ response'.op \in {"edit_post", "delete_post"}
               /\ response'.post_id = i
       /\ \A c \in DOMAIN comments :
            CommentTouched(c) =>
               \/ /\ response'.user = comments[c].author
                  /\ response'.op \in {"edit_comment", "delete_comment"}
                  /\ response'.comment_id = c
               \/ /\ response'.op = "delete_post"
                  /\ response'.post_id = comments[c].post
                  /\ response'.user = posts[comments[c].post].author
                  /\ c \notin DOMAIN comments'
       /\ \A u \in Users :
            users'[u] # users[u] =>
               response'.op = "edit_profile" /\ response'.user = u
       /\ Rejected(response') =>
            UNCHANGED <<posts, comments, users>>]_vars

\* C5's case: a comment's author has deleted the comment, which had been
\* stored and is gone.
C5_Witness ==
    /\ response.op = "delete_comment"
    /\ response.status = "302"
    /\ response.submit = "POST_valid"
    /\ response.comment_id \in 1..comment_seq
    /\ response.comment_id \notin DOMAIN comments

\* C6, as stated: the profile page of an existing user lists, for that user,
\* all of the user's posts and, for anyone else, exactly the user's publicly
\* visible posts (the category condition applying to a post that has a
\* category); it lists nobody else's posts; an unknown username is NotFound.
C6_ProfileListsPubliclyVisible ==
    response.op = "profile" =>
        IF response.name \notin Users THEN response.status = "404"
        ELSE /\ response.status = "200"
             /\ Listed =
                  IF response.user = response.name
                  THEN {i \in DOMAIN posts : posts[i].author = response.name}
                  ELSE {i \in DOMAIN posts :
                          posts[i].author = response.name
                          /\ PubliclyVisible(i)}

\* C6, amended: as stated, with "publicly visible" meaning published, in a
\* category that is published, and pub_date <= now; a post without a
\* category is listed for its author only.
C6_ProfileListsVisibleInCategory ==
    response.op = "profile" =>
        IF response.name \notin Users THEN response.status = "404"
        ELSE /\ response.status = "200"
             /\ Len(response.object_list) = Cardinality(Listed)
             /\ Listed =
                  IF response.user = response.name
                  THEN {i \in DOMAIN posts : posts[i].author = response.name}
                  ELSE {i \in DOMAIN posts :
                          posts[i].author = response.name
                          /\ VisibleInCategory(i)}

\* C6's case: someone else's view of a profile whose user has a listed post
\* and shares the store with another author's post, which is not listed.
C6_Witness ==
    /\ response.op = "profile"
    /\ response.name \in Users
    /\ response.user # response.name
    /\ Listed # {}
    /\ \E i \in DOMAIN posts \ Listed : posts[i].author # response.name

\* C7: the profile page lists the posts newest first and gives each its
\* comment_count, the number of its comments, for the owner as for anyone.
C7_ProfileAnnotatedNewestFirst ==
    (response.op = "profile" /\ response.status = "200") =>
        /\ \A k \in 1..Len(response.object_list) :
              response.object_list[k].comment_count =
                 <<Cardinality(CommentsOf(response.object_list[k].id))>>
        /\ \A j, k \in 1..Len(response.object_list) :
              j < k => posts[response.object_list[j].id].pub_date
                         >= posts[response.object_list[k].id].pub_date

C9_AddCommentToMissingPostNotFound ==
    (/\ response.op = "add_comment"
     /\ response.user \in Users
     /\ response.submit \in {"POST_invalid", "POST_valid"}
     /\ response.post_id \notin DOMAIN posts)
    => response.status = "404"

\* C10: the detail page of a post that is not published, in a published
\* category and past (so of every post that is not publicly visible) gives
\* no one but the post's author the comment list or the comment form: the
\* answer is NotFound or a page without them; and a comment list that is
\* given holds each comment of the post once, oldest first.
C10_CommentsConcealed ==
    response.op = "post_detail" =>
        /\ (/\ response.post_id \in DOMAIN posts
            /\ posts[response.post_id].author # response.user
            /\ ~VisibleInCategory(response.post_id))
           => \/ response.status = "404"
              \/ (~response.context.form /\ ~response.context.has_comments
                  /\ response.context.comments = <<>>)
        /\ response.context.has_comments =>
              LET listed == response.context.comments
              IN  /\ {listed[k] : k \in 1..Len(listed)}
                       = CommentsOf(response.post_id)
                  /\ Len(listed) = Cardinality(CommentsOf(response.post_id))
                  /\ \A j, k \in 1..Len(listed) :
                        j < k => comments[listed[j]].created_at
                                   <= comments[listed[k]].created_at

\* C10's case: a post with comments, published in a published category but
\* dated in the future, is asked for by someone other than its author, and
\* the page comes without the comments and the form.
C10_Witness ==
    /\ response.op = "post_detail"
    /\ response.status = "200"
    /\ response.post_id \in DOMAIN posts
    /\ posts[response.post_id].author # response.user
    /\ posts[response.post_id].pub_date > now
    /\ CommentsOf(response.post_id) # {}
    /\ ~response.context.has_comments
    /\ ~response.context.form

====
